---- MODULE Spec2Model ----
\* Bulk acquisition pipeline of src/download_data.py: the day scheduler
\* (download_gencast_2024) and the per-day workflow (process_day):
\* query -> export -> list -> download shards -> merge -> cleanup.
EXTENDS Integers, Sequences, FiniteSets, TLC

\* ---------------------------------------------------------------- bounds

\* Number of calendar days a run enumerates (the code enumerates 245).
NDays == 2
\* Largest number of lines (header included) of one exported shard.
MaxLines == 2
\* Number of days of a range that is run twice (at most NDays).
RerunDays == 1

\* ------------------------------------------------------ program constants

\* cpu_count = os.cpu_count() or 4: the value taken when the count is unknown
CpuCount == 4

Min(a, b) == IF a < b THEN a ELSE b
Max(a, b) == IF a > b THEN a ELSE b

Days == 1..NDays

\* --------------------------------------------------------- names and files

\* File names are strings, modelled as sequences of character codes.
\* ".csv"
DotCsv == <<46, 99, 115, 118>>
\* Object names an export to ".../*.csv" can produce: "00.csv", "01.csv", "10.csv"
ShardNames == { <<48, 48>> \o DotCsv, <<48, 49>> \o DotCsv, <<49, 48>> \o DotCsv }
\* An object under the prefix of a day that no export wrote: "00"
Stray == <<48, 48>>
ObjectNames == ShardNames \cup {Stray}

\* f.endswith('.csv')
AnyName(f) == TRUE
EndsWithCsv(f) ==
    /\ Len(f) >= Len(DotCsv)
    /\ SubSeq(f, Len(f) - Len(DotCsv) + 1, Len(f)) = DotCsv

\* Python's str comparison a < b: by code point, a proper prefix is smaller.
RECURSIVE StrLess(_, _)
StrLess(a, b) ==
    IF b = <<>> THEN FALSE
    ELSE IF a = <<>> THEN TRUE
    ELSE IF Head(a) # Head(b) THEN Head(a) < Head(b)
    ELSE StrLess(Tail(a), Tail(b))

\* s.startswith(p)
StartsWith(s, p) == Len(s) >= Len(p) /\ SubSeq(s, 1, Len(p)) = p

\* line 53: date_str = date.strftime('%Y%m%d') for day d of May 2024, "202405dd"
YearMonthOnly(d) == <<50, 48, 50, 52, 48, 53>>
date_str(d) == <<50, 48, 50, 52, 48, 53>> \o <<48 + (d \div 10), 48 + (d % 10)>>
\* line 54: table_name = f"gencast_{date_str}"
table_name(d) == <<103, 101, 110, 99, 97, 115, 116, 95>> \o date_str(d)
\* line 55: final_file = f"data/gencast_{date_str}.csv"
final_file(d) == <<100, 97, 116, 97, 47, 103, 101, 110, 99, 97, 115, 116, 95>> \o date_str(d) \o DotCsv
\* line 56: temp_dir = f"data/temp_{date_str}"
temp_dir(d) == <<100, 97, 116, 97, 47, 116, 101, 109, 112, 95>> \o date_str(d)
\* line 138: prefix = f"temp/{table_name}/", where the export of line 125 writes
prefix(d) == <<116, 101, 109, 112, 47>> \o table_name(d) \o <<47>>
\* The name of the object n that the export of day d wrote.
BlobName(d, n) == prefix(d) \o n

\* One line of a shard: line number i of the object named n.
Line(n, i) == <<n, i>>
LineShard(l) == l[1]
LineNo(l) == l[2]

\* The content of the shard n when it has h lines: line 1 is its header.
ShardLines(n, h) == [i \in 1..h |-> Line(n, i)]

\* Python's sorted() over a list of distinct names.
UnsortedNames(names) == names
sorted(names) == SortSeq(names, StrLess)

\* The names of a directory listing (a sequence of files), filtered as in
\* [f for f in os.listdir(temp_dir) if f.endswith('.csv')].
RECURSIVE CsvNames(_)
CsvNames(files) ==
    IF files = <<>> THEN <<>>
    ELSE IF EndsWithCsv(Head(files).name)
         THEN <<Head(files).name>> \o CsvNames(Tail(files))
         ELSE CsvNames(Tail(files))

\* chunk_files = sorted([f for f in os.listdir(temp_dir) if f.endswith('.csv')])
FirstChunkOnly(files) == SubSeq(sorted(CsvNames(files)), 1, 1)
ChunkFiles(files) == sorted(CsvNames(files))

\* The lines of the file called n in a directory listing.
FileRows(files, n) ==
    LET i == CHOOSE j \in 1..Len(files) : files[j].name = n IN files[i].rows

\* header = first_chunk.readline(): the first line, or nothing for an empty file.
ReadHeader(rows) == IF rows = <<>> THEN <<>> ELSE <<rows[1]>>

\* process_chunk(chunk_file, is_first): the rows read from one chunk;
\* next(infile) raises StopIteration on an empty file.
NoStopIteration(rows, is_first) == FALSE
ChunkRaises(rows, is_first) == ~is_first /\ rows = <<>>
process_chunk(rows, is_first) == IF is_first THEN rows ELSE SubSeq(rows, 2, Len(rows))

\* ------------------------------------------------------------------ state

VARIABLES
    cpu_count,    \* os.cpu_count() or 4, as the machine of the run gives it
    atRunStart,   \* the days whose artifact existed when the run began
    run,          \* the number of the run: 1, then 2 for a second run over the same range
    prevRet,      \* prevRet[d]: what the future of d held at the end of the run before
    leftover,     \* leftover[d]: the files that lay in data/temp_<d> when the run began
    dates,        \* the enumerated days, in submission order (list `dates`)
    world,        \* world[d]: the shards the export of day d writes, name -> number of lines
    atStart,      \* atStart[d]: whether the artifact of d existed when process_day(d) began
    pc,           \* pc[d]: where process_day(d) stands
    ret,          \* ret[d]: what the worker's future holds: "none", a status, or "raised"
    err,          \* err[d]: stage and message of the exception caught by process_day
    finalFile,    \* finalFile[d]: data/gencast_<d>.csv: [exists, rows]
    tempDir,      \* tempDir[d]: data/temp_<d>: [exists, files], files in directory order
    table,        \* table[d]: the remote table gencast_<d> exists
    bucket,       \* the objects of the bucket: <<d, name>> stands for temp/gencast_<d>/<name>
    blobs,        \* blobs[d]: the listing, as returned
    dl,           \* dl[d][i]: state of the download of blobs[d][i]
    chunk_files,  \* chunk_files[d]: the sorted names to merge
    header,       \* header[d]: what readline() of the first chunk gave
    rd,           \* rd[d][i]: state of the read of chunk_files[d][i]
    wpos,         \* wpos[d]: index of the next future the merge loop waits for
    total_rows,   \* total_rows[d]
    bpos,         \* bpos[d]: index of the next blob the cleanup deletes
    calls,        \* calls[d]: the remote calls process_day(d) issued, in order
    failLog,      \* data/failed_dates.txt: one record per piece written to it
    logBuf,       \* logBuf[d]: the file object of line 270: the pieces not yet written
    idx,          \* index in dates of the future the scheduler waits for
    spc,          \* where the loop over the futures stands within its iteration
    report,       \* the counters as the last progress report showed them
    completed, successful, skipped, failed,
    credit,       \* credit[d]: the increments the scheduler made for day d
    phase         \* "running" until the end-of-run summary, then "done"

dayVars == <<pc, ret, err, finalFile, tempDir, table, bucket, blobs, dl,
             chunk_files, header, rd, wpos, total_rows, bpos, calls, failLog, logBuf>>
schedVars == <<idx, spc, report, completed, successful, skipped, failed, credit, phase>>
envVars == <<cpu_count, atRunStart, run, prevRet, leftover>>
vars == <<envVars, dates, world, atStart, dayVars, schedVars>>

\* day_workers = min(12, max(cpu_count - 2, 1))
day_workers_no_reserve == Min(12, Max(cpu_count, 1))
day_workers == Min(12, Max(cpu_count - 2, 1))
\* chunk_workers = min(16, cpu_count)
chunk_workers_largest == Max(16, cpu_count)
chunk_workers == Min(16, cpu_count)

NoErr == [stage |-> "none", cause |-> "none"]
NoBuf == <<>>
NoReport == [completed |-> 0, successful |-> 0, skipped |-> 0, failed |-> 0]
NoCredit == [completed |-> 0, successful |-> 0, skipped |-> 0, failed |-> 0]

\* The worlds an export can produce: any set of shards, each of 0..MaxLines lines.
Worlds == UNION { [S -> 0..MaxLines] : S \in SUBSET ShardNames }
\* The same where the objects under the prefix are "00.csv" and "00", or one of
\* them, or none.
StrayWorlds == UNION { [S -> 0..MaxLines] : S \in SUBSET {<<48, 48>> \o DotCsv, Stray} }
\* The export of a single shard, "00.csv", of MaxLines lines.
OneShard == [n \in {<<48, 48>> \o DotCsv} |-> MaxLines]

Running(d) == pc[d] \notin {"idle", "queued", "returned"}
NumRunning == Cardinality({d \in Days : Running(d)})

\* The state after the submission of every date (lines 342-355), the futures
\* not yet started; arts is the set of days whose artifact already exists.
InitWith(cpus, ds, w, arts) ==
    /\ cpu_count = cpus
    /\ atRunStart = arts
    /\ run = 1
    /\ prevRet = [d \in Days |-> "none"]
    /\ leftover = [d \in Days |-> {}]
    /\ dates = ds
    /\ world = w
    /\ atStart = [d \in Days |-> "notstarted"]
    /\ pc = [d \in Days |-> IF \E i \in 1..Len(ds) : ds[i] = d THEN "queued" ELSE "idle"]
    /\ ret = [d \in Days |-> "none"]
    /\ err = [d \in Days |-> NoErr]
    /\ finalFile = [d \in Days |->
                      IF d \in arts
                      THEN [exists |-> TRUE, rows |-> <<Line(<<>>, 1)>>]
                      ELSE [exists |-> FALSE, rows |-> <<>>]]
    /\ tempDir = [d \in Days |-> [exists |-> FALSE, files |-> <<>>]]
    /\ table = [d \in Days |-> FALSE]
    /\ bucket = {}
    /\ blobs = [d \in Days |-> <<>>]
    /\ dl = [d \in Days |-> <<>>]
    /\ chunk_files = [d \in Days |-> <<>>]
    /\ header = [d \in Days |-> <<>>]
    /\ rd = [d \in Days |-> <<>>]
    /\ wpos = [d \in Days |-> 0]
    /\ total_rows = [d \in Days |-> 0]
    /\ bpos = [d \in Days |-> 0]
    /\ calls = [d \in Days |-> <<>>]
    /\ failLog = <<>>
    /\ logBuf = [d \in Days |-> NoBuf]
    /\ idx = 1
    /\ spc = "wait"
    /\ report = NoReport
    /\ completed = 0 /\ successful = 0 /\ skipped = 0 /\ failed = 0
    /\ credit = [d \in Days |-> NoCredit]
    /\ phase = "running"

\* Python's range(start, stop): start, start + 1, ..., stop - 1.
range(start, stop) == [i \in 1..(stop - start) |-> start + i - 1]

\* lines 335-339: the days of a month, range(1, days_in_month + 1), the month
\* having NDays days.
MonthDatesWithoutLast == range(1, NDays)
MonthDates == range(1, NDays + 1)

\* A run over all the days, each export giving one shard.
Init ==
    \E cpus \in {CpuCount - 1, CpuCount}, arts \in SUBSET Days :
        InitWith(cpus, MonthDates, [d \in Days |-> OneShard], arts)

\* A run over one day, its export giving any set of shards.
InitDay ==
    \E cpus \in {CpuCount - 2, CpuCount}, w \in Worlds, arts \in SUBSET {1} :
        InitWith(cpus, <<1>>, [d \in Days |-> w], arts)

\* --------------------------------------------------------------- process_day

Call(d, op, arg) == calls' = [calls EXCEPT ![d] = Append(@, <<op, arg>>)]

\* raise inside the try block: control goes to the handler of line 262
Raise(d, stage, cause) ==
    /\ pc' = [pc EXCEPT ![d] = "except"]
    /\ err' = [err EXCEPT ![d] = [stage |-> stage, cause |-> cause]]

\* The errors a query or an export can raise: a server-side error that may pass,
\* or one that will not.
UpstreamErrors == {"transient", "permanent"}

\* Whether process_day calls the operation again after it raised: the calls of
\* lines 118-119 and 127-132 stand in the try block with no loop around them.
RetryAll(cause) == TRUE
Retry(cause) == FALSE

\* What follows an error of a query or an export.
AfterError(d, stage, cause) ==
    /\ err' = [err EXCEPT ![d] = [stage |-> stage, cause |-> cause]]
    /\ pc' = [pc EXCEPT ![d] = IF Retry(cause) THEN stage ELSE "except"]

\* if os.path.exists(final_file): ... return "skipped"
SkipNever(d) == FALSE
ArtifactExists(d) == finalFile[d].exists

\* line 71: logger.info(f"SKIPPED: ..."): the handlers of the logger (lines
\* 22-32) are the console and data/debug_<name>.log; the failure log
\* data/failed_dates.txt is none of them and stays as it is.
InfoToFailureLog(log, d) == Append(log, [date |-> d, cause |-> "skipped", part |-> "line"])
logger_info(log, d) == log

\* A worker of the pool takes the next submitted date; lines 47-72.
StartDay(d) ==
    /\ pc[d] = "queued"
    /\ \A i, j \in 1..Len(dates) : (dates[j] = d /\ i < j) => pc[dates[i]] # "queued"
    /\ NumRunning < day_workers
    /\ IF ArtifactExists(d)
       THEN /\ pc' = [pc EXCEPT ![d] = "returned"]
            /\ ret' = [ret EXCEPT ![d] = "skipped"]
            /\ failLog' = logger_info(failLog, d)
       ELSE /\ pc' = [pc EXCEPT ![d] = "init"]
            /\ ret' = ret
            /\ failLog' = failLog
    /\ atStart' = [atStart EXCEPT ![d] = IF finalFile[d].exists THEN "artifact"
                                          ELSE "noartifact"]
    /\ UNCHANGED <<envVars, dates, world, err, finalFile, tempDir, table, bucket, blobs, dl,
                   chunk_files, header, rd, wpos, total_rows, bpos, calls, logBuf,
                   schedVars>>

\* lines 75-84: the clients, then os.makedirs(temp_dir, exist_ok=True)
InitClients(d) ==
    /\ pc[d] = "init"
    /\ Call(d, "client", <<>>)
    /\ \/ /\ tempDir' = [tempDir EXCEPT ![d].exists = TRUE]
          /\ pc' = [pc EXCEPT ![d] = "query"]
          /\ err' = err
       \/ /\ Raise(d, "init", "client")
          /\ tempDir' = tempDir
    /\ UNCHANGED <<envVars, dates, world, atStart, ret, finalFile, table, bucket, blobs, dl,
                   chunk_files, header, rd, wpos, total_rows, bpos, failLog, logBuf, schedVars>>

\* lines 110-119: the query into the table gencast_<d>, and the wait for it
RunQuery(d) ==
    /\ pc[d] = "query"
    /\ Call(d, "query", <<>>)
    /\ \/ /\ table' = [table EXCEPT ![d] = TRUE]
          /\ pc' = [pc EXCEPT ![d] = "export"]
          /\ err' = err
       \/ \E cause \in UpstreamErrors :
            /\ AfterError(d, "query", cause)
            /\ table' = table
    /\ UNCHANGED <<envVars, dates, world, atStart, ret, finalFile, tempDir, bucket, blobs, dl,
                   chunk_files, header, rd, wpos, total_rows, bpos, failLog, logBuf, schedVars>>

\* lines 125-132: the export of the table to temp/gencast_<d>/*.csv; a failed
\* export may have written some of the shards
ExportTable(d) ==
    /\ pc[d] = "export"
    /\ Call(d, "export", <<>>)
    /\ \/ /\ bucket' = bucket \cup {<<d, n>> : n \in DOMAIN world[d]}
          /\ pc' = [pc EXCEPT ![d] = "list"]
          /\ err' = err
       \/ \E part \in SUBSET (DOMAIN world[d]), cause \in UpstreamErrors :
            /\ bucket' = bucket \cup {<<d, n>> : n \in part}
            /\ AfterError(d, "export", cause)
    /\ UNCHANGED <<envVars, dates, world, atStart, ret, finalFile, tempDir, table, blobs, dl,
                   chunk_files, header, rd, wpos, total_rows, bpos, failLog, logBuf, schedVars>>

\* bucket.list_blobs(prefix=prefix), in any order: the objects whose name
\* begins with the prefix
Listed(d) == {b[2] : b \in {o \in bucket : StartsWith(BlobName(o[1], o[2]), prefix(d))}}
Orders(S) == {s \in [1..Cardinality(S) -> S] : \A n \in S : \E i \in DOMAIN s : s[i] = n}

\* line 141: if not blobs
AnyListing(listing) == FALSE
NoBlobs(listing) == listing = {}

\* lines 138-152: the listing, the emptiness check, the submission of the downloads
ListBlobs(d) ==
    /\ pc[d] = "list"
    /\ Call(d, "list", <<>>)
    /\ \/ /\ NoBlobs(Listed(d))
          /\ Raise(d, "list", "No chunks found")
          /\ UNCHANGED <<blobs, dl>>
       \/ /\ ~NoBlobs(Listed(d))
          /\ \E order \in Orders(Listed(d)) :
                /\ blobs' = [blobs EXCEPT ![d] = order]
                /\ dl' = [dl EXCEPT ![d] = [i \in DOMAIN order |-> "pending"]]
          /\ pc' = [pc EXCEPT ![d] = "download"]
          /\ err' = err
       \/ /\ Raise(d, "list", "upstream")
          /\ UNCHANGED <<blobs, dl>>
    /\ UNCHANGED <<envVars, dates, world, atStart, ret, finalFile, tempDir, table, bucket,
                   chunk_files, header, rd, wpos, total_rows, bpos, failLog, logBuf, schedVars>>

\* A directory after a file called n with the given rows was written into it.
WriteFile(files, n, rows) ==
    IF \E i \in DOMAIN files : files[i].name = n
    THEN [i \in DOMAIN files |-> IF files[i].name = n THEN [name |-> n, rows |-> rows]
                                 ELSE files[i]]
    ELSE Append(files, [name |-> n, rows |-> rows])

\* The downloads of day d that a thread of the chunk pool is running.
RunningDownloads(d) == {i \in DOMAIN dl[d] : dl[d][i] = "running"}

\* lines 150-152: a free thread of ThreadPoolExecutor(max_workers=chunk_workers)
\* takes the next submitted download and calls download_chunk
StartDownload(d, i) ==
    /\ pc[d] = "download"
    /\ i \in DOMAIN dl[d]
    /\ dl[d][i] = "pending"
    /\ \A j \in 1..(i - 1) : dl[d][j] # "pending"
    /\ Cardinality(RunningDownloads(d)) < chunk_workers
    /\ dl' = [dl EXCEPT ![d][i] = "running"]
    /\ Call(d, "download", blobs[d][i])
    /\ UNCHANGED <<envVars, dates, world, atStart, pc, ret, err, finalFile, tempDir, table,
                   bucket, blobs, chunk_files, header, rd, wpos, total_rows, bpos,
                   failLog, logBuf, schedVars>>

\* download_chunk(blob, temp_dir, logger) returns: the file and 0, or "" and 1
DownloadChunk(d, i) ==
    /\ pc[d] = "download"
    /\ i \in DOMAIN dl[d]
    /\ dl[d][i] = "running"
    /\ calls' = calls
    /\ \/ /\ tempDir' = [tempDir EXCEPT ![d].files =
                            WriteFile(@, blobs[d][i],
                                      ShardLines(blobs[d][i], world[d][blobs[d][i]]))]
          /\ dl' = [dl EXCEPT ![d][i] = "ok"]
       \/ /\ dl' = [dl EXCEPT ![d][i] = "failed"]
          /\ tempDir' = tempDir
    /\ UNCHANGED <<envVars, dates, world, atStart, pc, ret, err, finalFile, table, bucket, blobs,
                   chunk_files, header, rd, wpos, total_rows, bpos, failLog, logBuf, schedVars>>

\* failed_downloads, once every future of line 152 has given its result
NoFailedDownloads(d) == 0
failed_downloads(d) == Cardinality({i \in DOMAIN dl[d] : dl[d][i] = "failed"})

\* lines 155-156: future.result() of every future of line 152, in turn
UntilFirstFailure(d) ==
    \E i \in DOMAIN dl[d] :
        /\ dl[d][i] = "failed"
        /\ \A j \in 1..(i - 1) : dl[d][j] = "ok"
AllResults(d) == \A i \in DOMAIN dl[d] : dl[d][i] \in {"ok", "failed"}

\* lines 155-181: the results of the downloads, the check of failed_downloads,
\* the sorted listing of the staging directory, the header of its first chunk
CollectDownloads(d) ==
    /\ pc[d] = "download"
    /\ AllResults(d)
    /\ IF failed_downloads(d) > 0
       THEN /\ Raise(d, "download", "Failed to download chunks")
            /\ UNCHANGED <<chunk_files, header>>
       ELSE IF ChunkFiles(tempDir[d].files) = <<>>
       THEN /\ Raise(d, "merge", "No chunks downloaded")
            /\ UNCHANGED <<chunk_files, header>>
       ELSE /\ chunk_files' = [chunk_files EXCEPT ![d] = ChunkFiles(tempDir[d].files)]
            /\ header' = [header EXCEPT ![d] =
                            ReadHeader(FileRows(tempDir[d].files,
                                                ChunkFiles(tempDir[d].files)[1]))]
            /\ pc' = [pc EXCEPT ![d] = "open"]
            /\ err' = err
    /\ UNCHANGED <<envVars, dates, world, atStart, ret, finalFile, tempDir, table, bucket, blobs, dl,
                   rd, wpos, total_rows, bpos, calls, failLog, logBuf, schedVars>>

\* lines 202-211: open(final_file, 'w'), the header, the submission of the reads
OpenFinal(d) ==
    /\ pc[d] = "open"
    /\ finalFile' = [finalFile EXCEPT ![d] = [exists |-> TRUE, rows |-> header[d]]]
    /\ rd' = [rd EXCEPT ![d] = [i \in DOMAIN chunk_files[d] |-> "pending"]]
    /\ wpos' = [wpos EXCEPT ![d] = 1]
    /\ total_rows' = [total_rows EXCEPT ![d] = 0]
    /\ pc' = [pc EXCEPT ![d] = "merge"]
    /\ UNCHANGED <<envVars, dates, world, atStart, ret, err, tempDir, table, bucket, blobs, dl,
                   chunk_files, header, bpos, calls, failLog, logBuf, schedVars>>

\* The rows of the i-th chunk to merge, as it lies in the staging directory.
ChunkRows(d, i) == FileRows(tempDir[d].files, chunk_files[d][i])

\* process_chunk run by a thread of the chunk pool: it returns its rows, or
\* raises StopIteration (an empty chunk whose header is skipped) or an I/O error
ReadChunk(d, i) ==
    /\ pc[d] = "merge"
    /\ i \in DOMAIN rd[d]
    /\ rd[d][i] = "pending"
    /\ IF ChunkRaises(ChunkRows(d, i), i = 1)
       THEN rd' = [rd EXCEPT ![d][i] = "stop"]
       ELSE \/ rd' = [rd EXCEPT ![d][i] = "ok"]
            \/ rd' = [rd EXCEPT ![d][i] = "ioerror"]
    /\ UNCHANGED <<envVars, dates, world, atStart, pc, ret, err, finalFile, tempDir, table, bucket, blobs,
                   dl, chunk_files, header, wpos, total_rows, bpos, calls, failLog, logBuf,
                   schedVars>>

\* lines 214-217: the merge loop takes the results in the order of submission;
\* after the last one the file is closed and the cleanup begins
WriteChunk(d) ==
    /\ pc[d] = "merge"
    /\ wpos[d] \in DOMAIN rd[d]
    /\ rd[d][wpos[d]] # "pending"
    /\ IF rd[d][wpos[d]] = "ok"
       THEN LET chunk_data == process_chunk(ChunkRows(d, wpos[d]), wpos[d] = 1) IN
            /\ finalFile' = [finalFile EXCEPT ![d].rows = @ \o chunk_data]
            /\ total_rows' = [total_rows EXCEPT ![d] = @ + Len(chunk_data)]
            /\ wpos' = [wpos EXCEPT ![d] = @ + 1]
            /\ pc' = [pc EXCEPT ![d] = IF wpos[d] = Len(chunk_files[d])
                                       THEN "del_table" ELSE "merge"]
            /\ err' = err
       ELSE /\ Raise(d, "merge", IF rd[d][wpos[d]] = "stop" THEN "" ELSE "read error")
            /\ UNCHANGED <<finalFile, total_rows, wpos>>
    /\ UNCHANGED <<envVars, dates, world, atStart, ret, tempDir, table, bucket, blobs, dl,
                   chunk_files, header, rd, bpos, calls, failLog, logBuf, schedVars>>

\* line 228: bq_client.delete_table(..., not_found_ok=True)
DeleteTable(d) ==
    /\ pc[d] = "del_table"
    /\ Call(d, "delete_table", <<>>)
    /\ \/ /\ table' = [table EXCEPT ![d] = FALSE]
          /\ bpos' = [bpos EXCEPT ![d] = 1]
          /\ pc' = [pc EXCEPT ![d] = "del_blobs"]
          /\ err' = err
       \/ /\ Raise(d, "cleanup", "upstream")
          /\ UNCHANGED <<table, bpos>>
    /\ UNCHANGED <<envVars, dates, world, atStart, ret, finalFile, tempDir, bucket, blobs, dl,
                   chunk_files, header, rd, wpos, total_rows, failLog, logBuf, schedVars>>

\* lines 232-233: for blob in blobs: blob.delete()
DeleteBlob(d) ==
    /\ pc[d] = "del_blobs"
    /\ bpos[d] \in DOMAIN blobs[d]
    /\ Call(d, "delete_blob", blobs[d][bpos[d]])
    /\ \/ /\ bucket' = bucket \ {<<d, blobs[d][bpos[d]]>>}
          /\ bpos' = [bpos EXCEPT ![d] = @ + 1]
          /\ pc' = [pc EXCEPT ![d] = IF bpos[d] = Len(blobs[d])
                                     THEN "rmtree" ELSE "del_blobs"]
          /\ err' = err
       \/ /\ Raise(d, "cleanup", "upstream")
          /\ UNCHANGED <<bucket, bpos>>
    /\ UNCHANGED <<envVars, dates, world, atStart, ret, finalFile, tempDir, table, blobs, dl,
                   chunk_files, header, rd, wpos, total_rows, failLog, logBuf, schedVars>>

\* line 237: shutil.rmtree(temp_dir): the directory and its files are gone
KeepTree(dir) == dir
rmtree(dir) == [exists |-> FALSE, files |-> <<>>]

\* lines 237-260: shutil.rmtree(temp_dir), the statistics, return "success"
RemoveTempDir(d) ==
    /\ pc[d] = "rmtree"
    /\ \/ /\ tempDir' = [tempDir EXCEPT ![d] = rmtree(@)]
          /\ pc' = [pc EXCEPT ![d] = "returned"]
          /\ ret' = [ret EXCEPT ![d] = "success"]
          /\ err' = err
       \/ /\ Raise(d, "cleanup", "rmtree")
          /\ UNCHANGED <<tempDir, ret>>
    /\ UNCHANGED <<envVars, dates, world, atStart, finalFile, table, bucket, blobs, dl,
                   chunk_files, header, rd, wpos, total_rows, bpos, calls, failLog, logBuf,
                   schedVars>>

\* line 272: one f.write of the whole line, newline included. The file object
\* buffers it, so that it reaches the file in one piece when the file is closed.
WriteInTwoPieces(d, cause) ==
    <<[date |-> d, cause |-> cause, part |-> "head"],
      [date |-> d, cause |-> cause, part |-> "tail"]>>
BufferedLine(d, cause) == <<[date |-> d, cause |-> cause, part |-> "line"]>>

\* A write to a file opened with 'a': the piece lands at the end of the file as
\* it is at that moment, whatever other processes appended since the open.
LogNothing(log, piece) == log
AppendFailure(log, piece) == Append(log, piece)

\* lines 262-272: the handler of every exception of the try block: the file is
\* opened for appending and the line is written to the file object
HandleFailure(d) ==
    /\ pc[d] = "except"
    /\ logBuf' = [logBuf EXCEPT ![d] = BufferedLine(d, err[d].cause)]
    /\ pc' = [pc EXCEPT ![d] = "log_close"]
    /\ UNCHANGED <<envVars, dates, world, atStart, ret, err, finalFile, tempDir, table, bucket,
                   blobs, dl, chunk_files, header, rd, wpos, total_rows, bpos, calls,
                   failLog, schedVars>>

\* lines 270-273: the end of the with block flushes the file object, one piece
\* per step, and closes it; then return "failed"
CloseLog(d) ==
    /\ pc[d] = "log_close"
    /\ logBuf[d] # <<>>
    /\ failLog' = AppendFailure(failLog, Head(logBuf[d]))
    /\ logBuf' = [logBuf EXCEPT ![d] = Tail(@)]
    /\ IF Len(logBuf[d]) = 1
       THEN /\ pc' = [pc EXCEPT ![d] = "returned"]
            /\ ret' = [ret EXCEPT ![d] = "failed"]
       ELSE UNCHANGED <<pc, ret>>
    /\ UNCHANGED <<envVars, dates, world, atStart, err, finalFile, tempDir, table, bucket, blobs, dl,
                   chunk_files, header, rd, wpos, total_rows, bpos, calls, schedVars>>

\* process_day raises instead of returning a status, so that future.result()
\* raises in the scheduler (the case lines 385-388 handle). Only the code outside
\* the try block of lines 74-260 lets an exception out: lines 49-72, and the
\* handler itself when it cannot open the failure log (line 270).
WorkerRaises(d) ==
    /\ pc[d] \in {"init", "except"}
    /\ pc' = [pc EXCEPT ![d] = "returned"]
    /\ ret' = [ret EXCEPT ![d] = "raised"]
    /\ UNCHANGED <<envVars, dates, world, atStart, err, finalFile, tempDir, table, bucket, blobs, dl,
                   chunk_files, header, rd, wpos, total_rows, bpos, calls, failLog, logBuf,
                   schedVars>>

\* ------------------------------------------------------ download_gencast_2024

\* The counter a result increments: lines 364-369, and 387 when result() raises.
CounterOfSkippedAsSuccess(result) ==
    IF result \in {"success", "skipped"} THEN "successful" ELSE "failed"
CounterOf(result) ==
    IF result = "raised" THEN "failed"
    ELSE IF result = "success" THEN "successful"
    ELSE IF result = "skipped" THEN "skipped"
    ELSE "failed"

\* The increment of completed: line 362, and 388 when result() raises.
CompletedStepLost(result) == IF result = "raised" THEN 0 ELSE 1
CompletedStepTwice(result) == IF result = "raised" THEN 2 ELSE 1
CompletedStep(result) == 1

\* counter += k, for the outcome of day d
Bump(d, counter, k) ==
    /\ completed' = completed + (IF counter = "completed" THEN k ELSE 0)
    /\ successful' = successful + (IF counter = "successful" THEN k ELSE 0)
    /\ skipped' = skipped + (IF counter = "skipped" THEN k ELSE 0)
    /\ failed' = failed + (IF counter = "failed" THEN k ELSE 0)
    /\ credit' = [credit EXCEPT ![d] =
                    [completed |-> @.completed + (IF counter = "completed" THEN k ELSE 0),
                     successful |-> @.successful + (IF counter = "successful" THEN k ELSE 0),
                     skipped |-> @.skipped + (IF counter = "skipped" THEN k ELSE 0),
                     failed |-> @.failed + (IF counter = "failed" THEN k ELSE 0)]]

\* lines 351-358: future_to_date is a dict filled in the order of submission,
\* and "for future in future_to_date" goes through its keys in that order: the
\* i-th future waited for is that of the i-th date.
SubmittedLastFirst(i) == dates[Len(dates) + 1 - i]
FutureAt(i) == dates[i]

\* lines 358-362, 385-387: future.result() of the next future, in submission
\* order, returns or raises; then the first increment: completed (line 362), or
\* failed when result() raised (line 387)
TakeResult ==
    /\ phase = "running"
    /\ spc = "wait"
    /\ idx \in DOMAIN dates
    /\ ret[FutureAt(idx)] # "none"
    /\ IF ret[FutureAt(idx)] = "raised"
       THEN Bump(FutureAt(idx), CounterOf(ret[FutureAt(idx)]), 1)
       ELSE Bump(FutureAt(idx), "completed", CompletedStep(ret[FutureAt(idx)]))
    /\ spc' = "count"
    /\ UNCHANGED <<envVars, dates, world, atStart, dayVars, idx, report, phase>>

\* lines 364-369, 388: the second increment: the counter of the result, or
\* completed when result() raised, which ends the iteration
CountResult ==
    /\ phase = "running"
    /\ spc = "count"
    /\ IF ret[FutureAt(idx)] = "raised"
       THEN /\ Bump(FutureAt(idx), "completed", CompletedStep(ret[FutureAt(idx)]))
            /\ idx' = idx + 1
            /\ spc' = "wait"
       ELSE /\ Bump(FutureAt(idx), CounterOf(ret[FutureAt(idx)]), 1)
            /\ idx' = idx
            /\ spc' = "report"
    /\ UNCHANGED <<envVars, dates, world, atStart, dayVars, report, phase>>

\* lines 371-383: the progress report, which ends the iteration
ReportProgress ==
    /\ phase = "running"
    /\ spc = "report"
    /\ report' = [completed |-> completed, successful |-> successful,
                  skipped |-> skipped, failed |-> failed]
    /\ idx' = idx + 1
    /\ spc' = "wait"
    /\ UNCHANGED <<envVars, dates, world, atStart, dayVars, completed, successful, skipped,
                   failed, credit, phase>>

\* lines 390-401: the end-of-run summary
Summary ==
    /\ phase = "running"
    /\ idx = Len(dates) + 1
    /\ phase' = "done"
    /\ UNCHANGED <<envVars, dates, world, atStart, dayVars, idx, spc, report, completed, successful,
                   skipped, failed, credit>>

\* ------------------------------------------------------------- specification

Next ==
    \/ \E d \in Days : StartDay(d)
    \/ \E d \in Days : InitClients(d)
    \/ \E d \in Days : RunQuery(d)
    \/ \E d \in Days : ExportTable(d)
    \/ \E d \in Days : ListBlobs(d)
    \/ \E d \in Days, i \in 1..Cardinality(ShardNames) : StartDownload(d, i)
    \/ \E d \in Days, i \in 1..Cardinality(ShardNames) : DownloadChunk(d, i)
    \/ \E d \in Days : CollectDownloads(d)
    \/ \E d \in Days : OpenFinal(d)
    \/ \E d \in Days, i \in 1..Cardinality(ShardNames) : ReadChunk(d, i)
    \/ \E d \in Days : WriteChunk(d)
    \/ \E d \in Days : DeleteTable(d)
    \/ \E d \in Days : DeleteBlob(d)
    \/ \E d \in Days : RemoveTempDir(d)
    \/ \E d \in Days : HandleFailure(d)
    \/ \E d \in Days : CloseLog(d)
    \/ \E d \in Days : WorkerRaises(d)
    \/ TakeResult
    \/ CountResult
    \/ ReportProgress
    \/ Summary

\* The script is run again over the same range (the supported recovery path):
\* the files, the bucket, the tables and the failure log stay, the rest starts
\* as in the first run.
Rerun ==
    /\ phase = "done"
    /\ run = 1
    /\ run' = 2
    /\ prevRet' = ret
    /\ leftover' = [d \in Days |-> {tempDir[d].files[i].name : i \in DOMAIN tempDir[d].files}]
    /\ atRunStart' = {d \in Days : finalFile[d].exists}
    /\ atStart' = [d \in Days |-> "notstarted"]
    /\ pc' = [d \in Days |-> IF d \in {dates[i] : i \in DOMAIN dates}
                               THEN "queued" ELSE "idle"]
    /\ ret' = [d \in Days |-> "none"]
    /\ err' = [d \in Days |-> NoErr]
    /\ blobs' = [d \in Days |-> <<>>]
    /\ dl' = [d \in Days |-> <<>>]
    /\ chunk_files' = [d \in Days |-> <<>>]
    /\ header' = [d \in Days |-> <<>>]
    /\ rd' = [d \in Days |-> <<>>]
    /\ wpos' = [d \in Days |-> 0]
    /\ total_rows' = [d \in Days |-> 0]
    /\ bpos' = [d \in Days |-> 0]
    /\ calls' = [d \in Days |-> <<>>]
    /\ idx' = 1
    /\ spc' = "wait"
    /\ report' = NoReport
    /\ completed' = 0 /\ successful' = 0 /\ skipped' = 0 /\ failed' = 0
    /\ credit' = [d \in Days |-> NoCredit]
    /\ phase' = "running"
    /\ logBuf' = [d \in Days |-> NoBuf]
    /\ UNCHANGED <<cpu_count, dates, world, finalFile, tempDir, table, bucket, failLog>>

NextRerun == Next \/ Rerun

\* lines 403-408: KeyboardInterrupt reaches the main process while it is inside
\* the "with ProcessPoolExecutor" block of line 350. The loop over the results
\* is left (no further CollectResult, no Summary); leaving the block is
\* executor.shutdown(wait=True), which cancels nothing: the dates already
\* submitted at lines 352-355 stay in the pool's queue and the workers go on.
Interrupt ==
    /\ phase = "running"
    /\ phase' = "interrupted"
    /\ UNCHANGED <<envVars, dates, world, atStart, dayVars, idx, spc, report, completed,
                   successful, skipped, failed, credit>>

NextStop == Next \/ Interrupt

Spec == Init /\ [][Next]_vars
\* A first run over the first RerunDays days, then a second one over the same days.
InitRerun ==
    \E arts \in SUBSET (1..RerunDays) :
        InitWith(CpuCount, range(1, RerunDays + 1), [d \in Days |-> OneShard], arts)
SpecRerun == InitRerun /\ [][NextRerun]_vars
\* A first run over one day whose export gives any set of shards of MaxLines
\* lines, then a second run over it.
FullWorlds == UNION { [S -> {MaxLines}] : S \in SUBSET ShardNames }
InitRedo == \E w \in FullWorlds : InitWith(CpuCount, <<1>>, [d \in Days |-> w], {})
SpecRedo == InitRedo /\ [][NextRerun]_vars
SpecDay == InitDay /\ [][Next]_vars
\* A run over all the days with a pool of one worker, which may be interrupted.
InitStop == InitWith(CpuCount - 1, MonthDates, [d \in Days |-> OneShard], {})
SpecStop == InitStop /\ [][NextStop]_vars
\* A run over one day, with an object under its prefix that is no shard.
InitStray ==
    \E w \in StrayWorlds, arts \in SUBSET {1} :
        InitWith(CpuCount, <<1>>, [d \in Days |-> w], arts)
SpecStray == InitStray /\ [][Next]_vars
\* A run in which every call returns or raises and every process goes on: no
\* step that can be taken is put off for ever.
InitLive ==
    \E arts \in SUBSET Days :
        InitWith(CpuCount - 1, MonthDates, [d \in Days |-> OneShard], arts)
SpecLive == InitLive /\ [][Next]_vars /\ WF_vars(Next)

\* --------------------------------------------------------------- properties

DateSet == {dates[i] : i \in DOMAIN dates}
\* The iteration of the loop over the futures for day d has ended.
Recorded(d) == \E i \in 1..(idx - 1) : dates[i] = d
Issued(d, op, arg) == \E i \in DOMAIN calls[d] : calls[d][i] = <<op, arg>>
Logged(d) == \E i \in DOMAIN failLog : failLog[i].date = d
\* Every chunk to merge has been written to the artifact.
MergeComplete(d) == chunk_files[d] # <<>> /\ wpos[d] = Len(chunk_files[d]) + 1

\* C1: a day whose artifact exists when process_day starts ends Skipped, and
\* process_day issues no remote call for it.
C1_SkipExisting ==
    \A d \in Days :
        atStart[d] = "artifact" =>
            /\ ret[d] = "skipped"
            /\ pc[d] = "returned"
            /\ calls[d] = <<>>
            /\ Recorded(d) => credit[d].skipped = 1
C1_Witness ==
    \E d \in Days : atStart[d] = "artifact" /\ ret[d] = "skipped" /\ credit[d].skipped = 1

\* C2: a file lies at the final path of a day only if the merge of all of the
\* day's shards ran to completion.
C2_ArtifactOnlyAfterMerge ==
    \A d \in Days :
        (atStart[d] = "noartifact" /\ finalFile[d].exists) => MergeComplete(d)

\* C3: the merged artifact of a succeeded day begins with the header of the
\* lexically first shard, and no first line of a shard follows among its data.
C3_SingleHeader ==
    \A d \in Days :
        ret[d] = "success" =>
            /\ finalFile[d].rows # <<>>
            /\ finalFile[d].rows[1] = Line(chunk_files[d][1], 1)
            /\ \A j \in 2..Len(finalFile[d].rows) : LineNo(finalFile[d].rows[j]) # 1

\* The sum of h - 1 over the shards of a listing.
RECURSIVE DataLines(_, _)
DataLines(d, names) ==
    IF names = <<>> THEN 0
    ELSE (world[d][Head(names)] - 1) + DataLines(d, Tail(names))

\* C4: merging n >= 1 shards of h_1..h_n >= 1 lines gives an artifact of
\* 1 + sum(h_i - 1) lines.
C4_LineCount ==
    \A d \in Days :
        (ret[d] = "success" /\ \A i \in DOMAIN blobs[d] : world[d][blobs[d][i]] >= 1) =>
            Len(finalFile[d].rows) = 1 + DataLines(d, blobs[d])

\* C5: the lines of the shards lie in the artifact in the lexical order of the
\* shard names (and each shard's lines in their own order), whatever the order
\* of the listing, of the downloads and of the reads.
C5_LexicalOrder ==
    \A d \in Days :
        atStart[d] = "noartifact" =>
            \A j, k \in DOMAIN finalFile[d].rows :
                (1 < j /\ j < k) =>
                    LET a == finalFile[d].rows[j]
                        b == finalFile[d].rows[k] IN
                    \/ StrLess(LineShard(a), LineShard(b))
                    \/ LineShard(a) = LineShard(b) /\ LineNo(a) < LineNo(b)
C5_Witness ==
    \E d \in Days :
        /\ pc[d] = "del_table"
        /\ MergeComplete(d)
        /\ Len(blobs[d]) = 3
        /\ StrLess(blobs[d][2], blobs[d][1])
        /\ StrLess(blobs[d][3], blobs[d][2])
        /\ tempDir[d].files[1].name = blobs[d][2]
        /\ \A n \in DOMAIN world[d] : world[d][n] = MaxLines

\* The stages of process_day in which a merge is under way or done.
MergeEntered(d) == pc[d] \in {"open", "merge", "del_table", "del_blobs", "rmtree"}

\* C6: if a shard download of a day failed, the day ends Failed, its merge is
\* never entered and no file is created at its final path.
C6_DownloadAllOrNothing ==
    \A d \in Days :
        (\E i \in DOMAIN dl[d] : dl[d][i] = "failed") =>
            /\ ~MergeEntered(d)
            /\ chunk_files[d] = <<>>
            /\ ~finalFile[d].exists
            /\ ret[d] \in {"none", "failed", "raised"}
            /\ ret[d] = "failed" => (err[d].stage = "download" /\ Logged(d))
            /\ Recorded(d) => credit[d].failed = 1
C6_Witness ==
    \E d \in Days :
        /\ ret[d] = "failed"
        /\ credit[d].failed = 1
        /\ \E i, j \in DOMAIN dl[d] : dl[d][i] = "failed" /\ dl[d][j] = "ok"

\* C7: when a DayJob that created a table or exported shards ends Succeeded or
\* Failed, the deletion of the table and of every shard object it left behind
\* has at least been attempted.
C7_RemoteReclaimed ==
    \A d \in Days :
        ret[d] \in {"success", "failed"} =>
            /\ table[d] => Issued(d, "delete_table", <<>>)
            /\ \A n \in ShardNames : <<d, n>> \in bucket => Issued(d, "delete_blob", n)

\* C8: a cleanup operation that fails after a completed merge leaves the day
\* Succeeded, counted as succeeded, and absent from the failure log.
C8_CleanupNonFatal ==
    \A d \in Days :
        (err[d].stage = "cleanup" /\ MergeComplete(d) /\ ret[d] \notin {"none", "raised"}) =>
            /\ ret[d] = "success"
            /\ ~Logged(d)
            /\ Recorded(d) => credit[d].successful = 1

\* The stages Querying, Exporting (with its listing), Downloading, Merging.
WorkStages == {"query", "export", "list", "download", "merge"}

C10_RecordedOnce ==
    /\ \A d \in DateSet :
        /\ credit[d].completed <= 1
        /\ credit[d].successful + credit[d].skipped + credit[d].failed <= 1
        /\ Recorded(d) =>
                /\ credit[d].completed = 1
                /\ credit[d].successful + credit[d].skipped + credit[d].failed = 1
        /\ idx \in DOMAIN dates /\ dates[idx] = d /\ spc = "wait" => credit[d] = NoCredit
        /\ \A i \in (idx + 1)..Len(dates) : dates[i] = d => credit[d] = NoCredit
        /\ phase = "done" => Recorded(d)
    /\ \A d \in Days \ DateSet : credit[d] = NoCredit
    /\ spc = "wait" =>
            /\ completed = idx - 1
            /\ completed = successful + skipped + failed
C10_Witness ==
    /\ phase = "done"
    /\ \E d, e \in DateSet :
        /\ ret[d] = "raised" /\ credit[d].failed = 1 /\ credit[d].completed = 1
        /\ ret[e] \in {"success", "skipped"}
        /\ credit[e].successful + credit[e].skipped = 1 /\ credit[e].failed = 0

\* The number of lines of the failure log that name day d.
LogLines(d) == Cardinality({i \in DOMAIN failLog : failLog[i].date = d})

\* C11: at the end of a run the failure log holds exactly one line for each day
\* counted as failed, with a non-empty cause, and none for any other day.
C11_LogMatchesFailed ==
    phase = "done" =>
        \A d \in DateSet :
            /\ credit[d].failed = 1 =>
                    /\ LogLines(d) = 1
                    /\ \A i \in DOMAIN failLog : failLog[i].date = d => failLog[i].cause # ""
            /\ credit[d].failed = 0 => LogLines(d) = 0

\* C12: a run over N days of which K have their artifact at the start of the
\* run ends with skipped = K and successful + failed = N - K.
C12_SkippedEqualsExisting ==
    (run = 1 /\ phase = "done") =>
        /\ skipped = Cardinality(atRunStart)
        /\ successful + failed = Len(dates) - Cardinality(atRunStart)
C12_Witness ==
    /\ run = 1 /\ phase = "done"
    /\ Cardinality(atRunStart) = 1
    /\ Len(dates) > 1
    /\ skipped = 1 /\ successful + failed = Len(dates) - 1

\* C13, as claimed: the second run over the same range skips every day and
\* issues no remote call.
C13_SecondRunSkipsAll ==
    (run = 2 /\ phase = "done") =>
        /\ skipped = Len(dates)
        /\ \A d \in Days : calls[d] = <<>>

\* C13, amended: when every day of the first run ended Succeeded or Skipped, the
\* second run issues no remote call and ends with skipped = total days.
C13_SecondRunSkipsDone ==
    (run = 2 /\ \A d \in DateSet : prevRet[d] \in {"success", "skipped"}) =>
        /\ \A d \in Days : calls[d] = <<>> /\ ret[d] \in {"none", "skipped"}
        /\ phase = "done" => skipped = Len(dates)
C13_Witness ==
    /\ run = 2 /\ phase = "done"
    /\ \A d \in DateSet : prevRet[d] = "success" /\ ret[d] = "skipped"
    /\ skipped = Len(dates)

\* The number of calls of the remote operation op that process_day(d) issued.
NumCalls(d, op) == Cardinality({i \in DOMAIN calls[d] : calls[d][i][1] = op})

\* C14: a day does not fail on the first transient error of its query or its
\* export: the operation is called again (with growing delays) before that.
C14_TransientRetried ==
    \A d \in Days :
        (ret[d] = "failed" /\ err[d].cause = "transient") => NumCalls(d, err[d].stage) > 1

\* C15: after a permanent error of its query or its export, process_day does
\* not call the operation again: the day fails after exactly one attempt.
C15_PermanentNotRetried ==
    \A d \in Days :
        err[d].cause = "permanent" =>
            /\ NumCalls(d, err[d].stage) = 1
            /\ pc[d] \in {"except", "log_close", "returned"}
            /\ ret[d] \in {"none", "failed", "raised"}
            /\ pc[d] = "returned" /\ ret[d] = "failed" => Logged(d)
            /\ Recorded(d) => credit[d].failed = 1
C15_Witness ==
    \E d \in Days :
        /\ err[d] = [stage |-> "export", cause |-> "permanent"]
        /\ ret[d] = "failed"
        /\ NumCalls(d, "query") = 1 /\ NumCalls(d, "export") = 1
        /\ credit[d].failed = 1

\* C16: within one run every day of the range, both ends included, is enumerated
\* exactly once, and its process_day is started at most once: a day that has
\* left the queue never returns to it, and a day that returned (failed included)
\* stays returned for the rest of the run.
EnumeratedOnce ==
    \A d \in Days : Cardinality({i \in DOMAIN dates : dates[i] = d}) = 1
StartedAtMostOnce ==
    \A d \in Days :
        /\ pc[d] # "queued" => pc'[d] # "queued"
        /\ atStart[d] # "notstarted" => atStart'[d] = atStart[d]
        /\ ret[d] # "none" => pc'[d] = pc[d] /\ ret'[d] = ret[d] /\ calls'[d] = calls[d]
C16_EnumeratedAndStartedOnce == [](EnumeratedOnce) /\ [][StartedAtMostOnce]_vars
C16_Witness ==
    /\ phase = "done"
    /\ Len(dates) = NDays
    /\ dates[1] = 1 /\ dates[NDays] = NDays
    /\ ret[1] = "failed" /\ atStart[1] = "noartifact"
    /\ ret[NDays] = "success"
    /\ completed = NDays

\* C17: once the run is interrupted, no process_day that had not started is
\* started (the running ones go on to their end).
C17_NoStartAfterInterrupt ==
    [][phase = "interrupted" => \A d \in Days : pc[d] = "queued" => pc'[d] = "queued"]_vars

\* C18: at every moment the number of days whose process_day has started and
\* not yet returned is at most min(12, max(cpu_count - 2, 1)), however many
\* days were enumerated.
C18_DayPoolBound == NumRunning <= Min(12, Max(cpu_count - 2, 1))
C18_Witness ==
    /\ Len(dates) > Min(12, Max(cpu_count - 2, 1))
    /\ NumRunning = Min(12, Max(cpu_count - 2, 1))
    /\ \E d \in Days : pc[d] = "queued"

\* C19: within each day the number of shard downloads running at the same time
\* is at most min(16, cpu_count), whatever the day-level pool size and the
\* number of days running.
C19_ChunkPoolBound ==
    \A d \in Days : Cardinality(RunningDownloads(d)) <= Min(16, cpu_count)
C19_Witness ==
    \E d \in Days :
        /\ Cardinality(RunningDownloads(d)) = Min(16, cpu_count)
        /\ \E i \in DOMAIN dl[d] : dl[d][i] = "pending"
        /\ Min(16, cpu_count) > day_workers

\* The stage of a day, read off the position of its process_day.
Stage(p, r) ==
    CASE p \in {"idle", "queued"} -> "Pending"
      [] p \in {"init", "query"} -> "Querying"
      [] p = "export" -> "Exporting"
      [] p \in {"list", "download"} -> "Downloading"
      [] p \in {"open", "merge"} -> "Merging"
      [] p \in {"del_table", "del_blobs", "rmtree"} -> "CleaningUp"
      [] p \in {"except", "log_close"} -> "Failing"
      [] p = "returned" /\ r = "success" -> "Succeeded"
      [] p = "returned" /\ r = "skipped" -> "Skipped"
      [] OTHER -> "Failed"
StageOrder ==
    <<"Pending", "Querying", "Exporting", "Downloading", "Merging", "CleaningUp",
      "Succeeded">>
Terminal == {"Skipped", "Succeeded", "Failed"}

\* What the predecessor of a stage has left when it completed without error.
Completed(d, stage) ==
    CASE stage = "Pending" -> atStart[d] = "noartifact"
      [] stage = "Querying" -> table[d] /\ NumCalls(d, "query") = 1
      [] stage = "Exporting" ->
            /\ NumCalls(d, "export") = 1
            /\ \A n \in DOMAIN world[d] : <<d, n>> \in bucket
      [] stage = "Downloading" ->
            /\ dl[d] # <<>>
            /\ \A i \in DOMAIN dl[d] : dl[d][i] = "ok"
      [] stage = "Merging" ->
            /\ finalFile[d].exists
            /\ wpos[d] = Len(chunk_files[d]) + 1
            /\ \A i \in DOMAIN rd[d] : rd[d][i] = "ok"
      [] stage = "CleaningUp" ->
            /\ ~table[d]
            /\ \A i \in DOMAIN blobs[d] : <<d, blobs[d][i]>> \notin bucket
            /\ ~tempDir[d].exists
      [] OTHER -> FALSE

\* C20: a day changes stage only to the next stage of the order Pending,
\* Querying, Exporting, Downloading, Merging, CleaningUp, Succeeded, and only
\* when the stage it leaves completed without error, or to Skipped (from
\* Pending) or towards Failed; Skipped, Succeeded and Failed are never left and
\* nothing is called in them.
StageStep(d) ==
    LET s == Stage(pc[d], ret[d])
        t == Stage(pc'[d], ret'[d])
    IN  /\ s \in Terminal => t = s /\ calls'[d] = calls[d]
        /\ t # s =>
              \/ \E k \in 1..(Len(StageOrder) - 1) :
                    /\ s = StageOrder[k]
                    /\ t = StageOrder[k + 1]
                    /\ err'[d] = NoErr
                    /\ Completed(d, StageOrder[k])'
              \/ s = "Pending" /\ t = "Skipped"
              \/ s \notin Terminal /\ s # "Pending" /\ t \in {"Failing", "Failed"}
C20_StagesInOrder == [][\A d \in Days : StageStep(d)]_vars
C20_Witness ==
    \E d \in Days :
        /\ Stage(pc[d], ret[d]) = "Succeeded"
        /\ Len(dl[d]) > 1
        /\ Completed(d, "Downloading") /\ Completed(d, "Merging") /\ Completed(d, "CleaningUp")

\* C21: when several days fail at the same time in different workers, the
\* failure log still consists of whole lines, each written by one append: no
\* piece of a line stands in it, and no day has more than one line.
C21_WholeLines ==
    /\ \A i \in DOMAIN failLog : failLog[i].part = "line"
    /\ \A d \in Days : LogLines(d) <= 1
    /\ \A d \in Days : (pc[d] = "returned" /\ ret[d] = "failed") => LogLines(d) = 1
C21_Witness ==
    \E d, e \in Days :
        /\ d < e
        /\ pc[d] = "log_close" /\ logBuf[d] # <<>>
        /\ pc[e] = "returned" /\ ret[e] = "failed" /\ LogLines(e) = 1

\* C22: the recording of one day's outcome (the two increments, then the
\* report) is not interleaved with that of another day: while one day is being
\* recorded, every other day is recorded wholly or not at all and the counters
\* are those of the wholly recorded days plus the increments made so far for
\* that one day; every report shows whole outcomes only.
Sum(c) == c.successful + c.skipped + c.failed
C22_RecordingAtomic ==
    /\ spc # "wait" => idx \in DOMAIN dates /\ ret[dates[idx]] # "none"
    /\ \A d \in DateSet :
            (spc = "wait" \/ d # dates[idx]) =>
                IF Recorded(d) THEN credit[d].completed = 1 /\ Sum(credit[d]) = 1
                ELSE credit[d] = NoCredit
    /\ spc # "wait" =>
            /\ completed = (idx - 1) + credit[dates[idx]].completed
            /\ Sum([successful |-> successful, skipped |-> skipped, failed |-> failed])
                    = (idx - 1) + Sum(credit[dates[idx]])
    /\ spc = "report" => completed = idx /\ Sum(credit[dates[idx]]) = 1
    /\ report.completed = Sum(report)
    /\ report.completed <= completed
C22_Witness ==
    /\ spc = "count"
    /\ idx < Len(dates)
    /\ credit[dates[idx]].completed = 1 /\ Sum(credit[dates[idx]]) = 0
    /\ ret[dates[idx + 1]] # "none"
    /\ credit[dates[idx + 1]] = NoCredit
    /\ report = NoReport

\* The export of day d completed, wrote no shard, and the listing was made.
EmptyListing(d) ==
    /\ DOMAIN world[d] = {}
    /\ NumCalls(d, "list") = 1
    /\ err[d].cause # "upstream"

\* C23: when the listing that follows a completed export is empty, the day fails
\* with one export and one listing made, no download and no merge started, and
\* no file at the final path.
C23_EmptyListingFails ==
    \A d \in Days :
        EmptyListing(d) =>
            /\ err[d] = [stage |-> "list", cause |-> "No chunks found"]
            /\ pc[d] \in {"except", "log_close", "returned"}
            /\ ret[d] \in {"none", "failed", "raised"}
            /\ NumCalls(d, "export") = 1
            /\ NumCalls(d, "download") = 0
            /\ dl[d] = <<>> /\ chunk_files[d] = <<>> /\ rd[d] = <<>>
            /\ ~finalFile[d].exists
            /\ Recorded(d) => credit[d].failed = 1
C23_Witness ==
    \E d \in Days :
        /\ EmptyListing(d)
        /\ NumCalls(d, "export") = 1
        /\ ret[d] = "failed" /\ Logged(d)
        /\ credit[d].failed = 1

\* The steps process_day(d) can still take, counted from above: the stages
\* still ahead, each weighted more than the steps one stage can take, plus the
\* steps left in the present stage.
StagesAhead(p) ==
    CASE p \in {"idle", "returned"} -> 0
      [] p = "log_close" -> 1
      [] p = "except" -> 2
      [] p = "rmtree" -> 3
      [] p = "del_blobs" -> 4
      [] p = "del_table" -> 5
      [] p = "merge" -> 6
      [] p = "open" -> 7
      [] p = "download" -> 8
      [] p = "list" -> 9
      [] p = "export" -> 10
      [] p = "query" -> 11
      [] p = "init" -> 12
      [] OTHER -> 13
StepsInStage(d) ==
    CASE pc[d] = "download" ->
            2 * Cardinality({i \in DOMAIN dl[d] : dl[d][i] = "pending"})
            + Cardinality(RunningDownloads(d))
      [] pc[d] = "merge" ->
            Cardinality({i \in DOMAIN rd[d] : rd[d][i] = "pending"})
            + (Len(chunk_files[d]) + 1 - wpos[d])
      [] pc[d] = "del_blobs" -> Len(blobs[d]) + 1 - bpos[d]
      [] pc[d] = "log_close" -> Len(logBuf[d])
      [] OTHER -> 0
StepsLeft(d) ==
    StagesAhead(pc[d]) * (2 * Cardinality(ShardNames) + 1) + StepsInStage(d)
\* The same for the loop over the futures and the summary.
SchedStepsLeft ==
    (IF phase = "running" THEN 1 ELSE 0)
    + 3 * (Len(dates) + 1 - idx)
    - (CASE spc = "wait" -> 0 [] spc = "count" -> 1 [] OTHER -> 2)
RECURSIVE SumSteps(_)
SumSteps(n) == IF n = 0 THEN 0 ELSE StepsLeft(n) + SumSteps(n - 1)
Measure == SchedStepsLeft + SumSteps(NDays)

\* C24: when every call returns or raises, the run ends: as long as the summary
\* is not made some step can be taken, and every step lowers a measure that
\* never falls below zero, so that the summary is reached; every enumerated day
\* has then returned or raised and successful + skipped + failed is the number
\* of enumerated days, whether or not some days failed.
C24_RunTerminates ==
    /\ [](Measure >= 0)
    /\ [](phase # "done" => ENABLED Next)
    /\ [][Measure' < Measure]_vars
    /\ [](phase = "done" =>
            /\ \A d \in DateSet : pc[d] = "returned" /\ ret[d] # "none"
            /\ successful + skipped + failed = Len(dates)
            /\ completed = Len(dates))
C24_Witness ==
    /\ phase = "done"
    /\ Measure = 0
    /\ failed >= 1 /\ successful >= 1
    /\ successful + skipped + failed = Len(dates)
    /\ \E d \in DateSet : ret[d] = "failed" /\ err[d].stage = "merge"

\* C25: a failed shard download is only counted: when the day fails because
\* of its failed downloads, the download of every listed shard was called and
\* had given its result, failed or not.
C25_SiblingsAwaited ==
    \A d \in Days :
        err[d].stage = "download" =>
            /\ Len(dl[d]) = Len(blobs[d])
            /\ \A i \in DOMAIN dl[d] :
                    /\ dl[d][i] \in {"ok", "failed"}
                    /\ Issued(d, "download", blobs[d][i])
            /\ NumCalls(d, "download") = Len(blobs[d])
            /\ failed_downloads(d) > 0
C25_Witness ==
    \E d \in Days :
        /\ err[d].stage = "download"
        /\ ret[d] = "failed"
        /\ Len(dl[d]) = Cardinality(ShardNames)
        /\ dl[d][1] = "failed"
        /\ \A i \in 2..Len(dl[d]) : dl[d][i] = "ok"
        /\ NumCalls(d, "download") = Len(blobs[d])

\* C26: the row count of the merge of a succeeded day, total_rows, is the
\* number of data lines of the artifact: its lines that are not the first line
\* of a shard, which are all its lines but the one header.
C26_RowCount ==
    \A d \in Days :
        ret[d] = "success" =>
            /\ total_rows[d] = Cardinality({j \in DOMAIN finalFile[d].rows :
                                                LineNo(finalFile[d].rows[j]) # 1})
            /\ total_rows[d] = Len(finalFile[d].rows) - 1

\* C27: when process_day returns "success", the table of the day is deleted,
\* every object listed for the day is deleted, the staging directory is gone
\* and the final file exists.
C27_SuccessLeavesNothing ==
    \A d \in Days :
        ret[d] = "success" =>
            /\ ~table[d]
            /\ \A i \in DOMAIN blobs[d] : <<d, blobs[d][i]>> \notin bucket
            /\ Listed(d) = {}
            /\ ~tempDir[d].exists /\ tempDir[d].files = <<>>
            /\ finalFile[d].exists
C27_Witness ==
    \E d \in Days :
        /\ ret[d] = "success"
        /\ Len(blobs[d]) = Cardinality(ShardNames)
        /\ NumCalls(d, "delete_blob") = Len(blobs[d])
        /\ NumCalls(d, "delete_table") = 1
        /\ Listed(d) = {} /\ ~table[d] /\ ~tempDir[d].exists /\ finalFile[d].exists

\* Every object listed for day d was downloaded, and none of them has a name
\* in ".csv": the merge has no input file.
NoShardDownloaded(d) ==
    /\ blobs[d] # <<>>
    /\ \A i \in DOMAIN blobs[d] : blobs[d][i] = Stray /\ dl[d][i] = "ok"
    /\ pc[d] # "download"

\* C28: when no downloaded file qualifies as a shard, the day fails before
\* the final file is opened: no file is created at the final path.
C28_NoInputNoArtifact ==
    \A d \in Days :
        NoShardDownloaded(d) =>
            /\ err[d] = [stage |-> "merge", cause |-> "No chunks downloaded"]
            /\ pc[d] \in {"except", "log_close", "returned"}
            /\ ret[d] \in {"none", "failed", "raised"}
            /\ chunk_files[d] = <<>> /\ rd[d] = <<>>
            /\ ~finalFile[d].exists
            /\ Recorded(d) => credit[d].failed = 1
C28_Witness ==
    \E d \in Days :
        /\ NoShardDownloaded(d)
        /\ tempDir[d].exists /\ Len(tempDir[d].files) = 1
        /\ ret[d] = "failed" /\ Logged(d)
        /\ ~finalFile[d].exists
        /\ credit[d].failed = 1

\* C29: the table, the export prefix, the staging directory and the final file
\* of two different days are different, and a listing with the prefix of one
\* day returns no object of another day.
C29_DaysShareNothing ==
    /\ \A d, e \in Days :
            d # e =>
                /\ table_name(d) # table_name(e)
                /\ prefix(d) # prefix(e)
                /\ temp_dir(d) # temp_dir(e)
                /\ final_file(d) # final_file(e)
    /\ \A o \in bucket :
            \A d \in Days \ {o[1]} : ~StartsWith(BlobName(o[1], o[2]), prefix(d))
C29_Witness ==
    \E d, e \in Days :
        /\ d # e
        /\ pc[d] = "download" /\ pc[e] = "download"
        /\ blobs[d] # <<>> /\ blobs[e] # <<>>
        /\ Listed(d) # {} /\ Listed(e) # {}
        /\ tempDir[d].exists /\ tempDir[e].exists

\* C30: a day that failed in a run, in whatever stage, has no file at its final
\* path when the run ends, and the next run attempts it again instead of
\* skipping it.
C30_FailedDayRetried ==
    /\ phase = "done" =>
            \A d \in DateSet : ret[d] = "failed" => ~finalFile[d].exists
    /\ run = 2 =>
            \A d \in DateSet :
                prevRet[d] = "failed" => d \notin atRunStart /\ ret[d] # "skipped"

\* C31: a day that ended Succeeded or Skipped in a run is skipped in the next
\* run over the same range: its artifact is there when that run begins, its
\* process_day issues no remote call and returns "skipped", and the scheduler
\* counts it as skipped.
C31_DoneDaySkippedLater ==
    run = 2 =>
        \A d \in DateSet :
            prevRet[d] \in {"success", "skipped"} =>
                /\ d \in atRunStart
                /\ finalFile[d].exists
                /\ pc[d] \in {"queued", "returned"}
                /\ ret[d] \in {"none", "skipped"}
                /\ calls[d] = <<>>
                /\ atStart[d] \in {"notstarted", "artifact"}
                /\ Recorded(d) => credit[d].skipped = 1
                /\ phase = "done" => ret[d] = "skipped"
C31_Witness ==
    /\ run = 2 /\ phase = "done"
    /\ \E d \in DateSet :
        /\ prevRet[d] = "skipped"
        /\ ret[d] = "skipped" /\ calls[d] = <<>>
        /\ credit[d].skipped = 1

\* The number of lines of the artifact of day d that are the line l.
Occurrences(d, l) ==
    Cardinality({j \in DOMAIN finalFile[d].rows : finalFile[d].rows[j] = l})

\* C32: the files merged into the artifact of a day are the shards listed in
\* the same execution, one file for each, each downloaded in that execution;
\* once the merge is complete every data line of every listed shard stands in
\* the artifact exactly once, and no line of the artifact comes from elsewhere
\* (a chunk that an earlier failed execution left in the staging directory is
\* listed and downloaded again before it is merged).
C32_MergedAreListed ==
    \A d \in Days :
        chunk_files[d] # <<>> =>
            /\ Len(chunk_files[d]) = Len(blobs[d])
            /\ \A k \in DOMAIN chunk_files[d] :
                    \E i \in DOMAIN blobs[d] :
                        blobs[d][i] = chunk_files[d][k] /\ dl[d][i] = "ok"
            /\ \A i \in DOMAIN blobs[d] :
                    \E k \in DOMAIN chunk_files[d] : chunk_files[d][k] = blobs[d][i]
            /\ \A j \in DOMAIN finalFile[d].rows :
                    \E i \in DOMAIN blobs[d] : LineShard(finalFile[d].rows[j]) = blobs[d][i]
            /\ MergeComplete(d) =>
                    \A i \in DOMAIN blobs[d] :
                        \A k \in 2..world[d][blobs[d][i]] :
                            Occurrences(d, Line(blobs[d][i], k)) = 1
C32_Witness ==
    \E d \in Days :
        /\ run = 2
        /\ leftover[d] # {}
        /\ Cardinality(leftover[d]) < Len(blobs[d])
        /\ MergeComplete(d)
        /\ ret[d] = "success"

\* The objects of the bucket that lie under the prefix of day d.
ObjectsOf(d) == {o \in bucket : o[1] = d}

\* What a step leaves alone for day d: the artifact, the staging directory, the
\* lines of the failure log, the table, the objects, the calls made.
Untouched(d) ==
    /\ finalFile'[d] = finalFile[d]
    /\ tempDir'[d] = tempDir[d]
    /\ failLog' = failLog
    /\ logBuf'[d] = logBuf[d]
    /\ table'[d] = table[d]
    /\ ObjectsOf(d)' = ObjectsOf(d)
    /\ calls'[d] = calls[d]

\* C33: a process_day that returns "skipped" changes nothing: the step that
\* returns it leaves the artifact, the staging directory, the failure log and
\* the remote objects of the day as they were, no step of the day follows, and
\* the day has no staging directory, no log line, no table and no object, its
\* artifact being the file that was there.
SkippedDayAsBefore ==
    \A d \in Days :
        ret[d] = "skipped" =>
            /\ pc[d] = "returned"
            /\ finalFile[d] = [exists |-> TRUE, rows |-> <<Line(<<>>, 1)>>]
            /\ ~tempDir[d].exists /\ tempDir[d].files = <<>>
            /\ ~Logged(d) /\ logBuf[d] = NoBuf
            /\ ~table[d] /\ ObjectsOf(d) = {}
            /\ calls[d] = <<>>
SkipStep ==
    \A d \in Days :
        /\ (ret[d] # "skipped" /\ ret'[d] = "skipped") => Untouched(d)
        /\ ret[d] = "skipped" => ret'[d] = "skipped" /\ pc'[d] = pc[d]
C33_SkipChangesNothing == [](SkippedDayAsBefore) /\ [][SkipStep]_vars
C33_Witness ==
    \E d, e \in Days :
        /\ ret[d] = "skipped" /\ Recorded(d)
        /\ finalFile[d].exists /\ ~tempDir[d].exists
        /\ ret[e] = "failed" /\ Logged(e) /\ ObjectsOf(e) # {} /\ tempDir[e].exists

C35_CountersAddUp ==
    LET counted == successful + skipped + failed IN
    /\ completed <= Len(dates) /\ counted <= Len(dates)
    /\ spc \in {"wait", "report"} => completed = counted
    /\ spc = "count" =>
            IF ret[FutureAt(idx)] = "raised" THEN counted = completed + 1
            ELSE completed = counted + 1
    /\ phase = "done" => completed = counted /\ completed = Len(dates)
C35_Witness ==
    /\ phase = "done"
    /\ completed = Len(dates)
    /\ completed = successful + skipped + failed
    /\ \E d, e \in DateSet : ret[d] = "raised" /\ ret[e] \notin {"raised", "none"}

\* The k-th chunk to merge of day d, k > 1, is a shard without any line.
EmptyLaterShard(d, k) ==
    /\ k \in 2..Len(chunk_files[d])
    /\ world[d][chunk_files[d][k]] = 0

\* C36: a shard that is not the lexically first one and has no line at all
\* makes the day fail: the merge never gets past it, the cleanup is not
\* entered, process_day does not return "success", and the day is counted as
\* failed.
C36_EmptyShardFails ==
    \A d \in Days :
        \A k \in DOMAIN chunk_files[d] :
            EmptyLaterShard(d, k) =>
                /\ wpos[d] <= k
                /\ ~MergeComplete(d)
                /\ pc[d] \in {"open", "merge", "except", "log_close", "returned"}
                /\ ret[d] \in {"none", "failed", "raised"}
                /\ pc[d] = "returned" => ret[d] \in {"failed", "raised"}
                /\ \A j \in DOMAIN finalFile[d].rows :
                        LineShard(finalFile[d].rows[j]) # chunk_files[d][k]
                /\ Recorded(d) => credit[d].failed = 1
C36_Witness ==
    \E d \in Days :
        /\ EmptyLaterShard(d, 2)
        /\ wpos[d] = 2
        /\ rd[d][2] = "stop"
        /\ world[d][chunk_files[d][1]] = MaxLines
        /\ ret[d] = "failed" /\ err[d].stage = "merge"
        /\ credit[d].failed = 1

====
